---------------------------- MODULE Spec2Model ----------------------------
(***************************************************************************)
(* A model of github.com/matthewmueller/prompt (src/prompt.go).            *)
(*                                                                         *)
(* Two specifications share the fields of the prompt struct:               *)
(*   SpecEditor  one call of readTerminalLine: the raw-mode line editor,   *)
(*               fed by a user who types keystrokes into the terminal;     *)
(*   SpecAsk     one call of Ask, Password or Confirm on a reader that is  *)
(*               no terminal: the re-prompt loop, the worker goroutine of  *)
(*               readInput/readPassword and the context's cancellation.    *)
(*                                                                         *)
(* Bytes and code points are naturals; a Go string and a []rune are        *)
(* sequences of code points, the reader holds bytes.  The writer's output  *)
(* is a sequence of items <<kind, n>>: <<"ch", c>> is the character c,     *)
(* <<"CUU", n>>, <<"CUD", n>>, <<"CUF", n>>, <<"CUB", n>> are the cursor   *)
(* movements ESC[nA, ESC[nB, ESC[nC, ESC[nD and <<"EL", 0>> is ESC[K.      *)
(***************************************************************************)
EXTENDS Integers, Sequences, FiniteSets, TLC

VARIABLES
    \* ---- the prompt struct (src/prompt.go:105-112)
    reader,        \* q.reader: the bytes that are buffered and not yet read
    readerEnd,     \* what follows them: "open" (a read blocks), "eof", "err"
    defaultTo,     \* q.defaultTo
    optional,      \* q.optional
    checks,        \* q.checks: the configured checks, in order
    \* ---- readTerminalLine (src/prompt.go:157-240)
    edPc,          \* "off", "start" (before MakeRaw), "reading", "returned"
    termRaw,       \* the terminal is in raw mode
    restoreCount,  \* calls of term.Restore
    line,          \* the edit buffer, []rune
    cursor,        \* the cursor
    edRet,         \* what readTerminalLine returned: [val, err], and by which return (via)
    inputOffset,   \* the argument of readTerminalLine
    lastWrite,     \* what the last loop iteration wrote to q.writer (until a key is typed)
    fed,           \* history: what the user typed, see UserTypes
    \* ---- Ask / Password / Confirm and the worker (src/prompt.go:432-609)
    op,            \* "Ask", "Password", "Confirm", or "none"
    askPc,         \* the caller's position: "call", "prompt" (the label retry),
                   \* "readInput", "select", "empty" (the test input == ""),
                   \* "checks" (the loop over q.checks), "returned"
    askRet,        \* what the call returned: [val, err, yes], yes for Confirm
    answer,        \* input / pass of the current attempt
    cancelled,     \* ctx.Done() is closed
    worker,        \* the goroutine of the current attempt: [pc, val, err], pc one of
                   \* "none", "read", "sendInput", "sendErr" (blocked in the send), "done"
    chanClosed,    \* inputCh and errorCh of the current attempt are closed
    writer,        \* what the call wrote to q.writer: <<"prompt", "">>, <<"nl", "">>,
                   \* <<"errln", c>> (the error of check c and a newline)
    hist,          \* history of the call, see InitAsk
    \* ---- what the other specifications add
    leaked,        \* the goroutine an earlier, cancelled call left behind
    term,          \* the terminal the editor draws on, see SpecScreen
    call           \* history: what a specification started from or applied

cfgVars == <<defaultTo, optional, checks>>
edVars  == <<edPc, termRaw, restoreCount, line, cursor, edRet, inputOffset,
             lastWrite, fed>>
askVars == <<op, askPc, askRet, answer, cancelled, worker, chanClosed, writer, hist>>
fnVars  == <<leaked, term, call>>
vars    == <<reader, readerEnd, cfgVars, edVars, askVars, fnVars>>

(***************************************************************************)
(* Bounds of the model.                                                    *)
(***************************************************************************)
MaxLine    == 3   \* the buffer is not grown beyond this length
MaxPending == 3   \* bytes the user types ahead while a read is blocked

(***************************************************************************)
(* Sequences.                                                              *)
(***************************************************************************)
\* s[lo:hi] of Go, 0-based, hi exclusive
Slice(s, lo, hi) == IF hi <= lo THEN <<>> ELSE SubSeq(s, lo + 1, hi)

Str(cs) == [i \in 1..Len(cs) |-> <<"ch", cs[i]>>]

(***************************************************************************)
(* unicode.IsControl, unicode.IsSpace (package unicode, as the code uses   *)
(* them) and UTF-8 (package unicode/utf8, bufio.Reader.ReadRune).          *)
(***************************************************************************)
IsControl(r) == r < 32 \/ (r >= 127 /\ r < 160)

IsSpace(r) ==
    \/ r \in {9, 10, 11, 12, 13, 32, 133, 160}
    \/ r \in {5760, 8232, 8233, 8239, 8287, 12288}
    \/ (r >= 8192 /\ r <= 8202)

RuneError == 65533

\* the bytes of the encoding that starts with lead byte b (0: no lead byte)
Utf8Need(b) ==
    IF b < 128 THEN 1
    ELSE IF b >= 194 /\ b <= 223 THEN 2
    ELSE IF b >= 224 /\ b <= 239 THEN 3
    ELSE IF b >= 240 /\ b <= 244 THEN 4
    ELSE 0

\* the second byte an encoding with lead byte b accepts
Utf8Second(b, c) ==
    CASE b = 224 -> c >= 160 /\ c <= 191
      [] b = 237 -> c >= 128 /\ c <= 159
      [] b = 240 -> c >= 144 /\ c <= 191
      [] b = 244 -> c >= 128 /\ c <= 143
      [] OTHER   -> c >= 128 /\ c <= 191

IsCont(c) == c >= 128 /\ c <= 191

\* utf8.DecodeRune(p), p not empty: [r, size]
DecodeRune(p) ==
    LET b == p[1]
        n == Utf8Need(b)
        bad == [r |-> RuneError, size |-> 1]
    IN  IF n = 1 THEN [r |-> b, size |-> 1]
        ELSE IF n = 0 \/ Len(p) < n THEN bad
        ELSE IF ~Utf8Second(b, p[2]) THEN bad
        ELSE IF n = 2 THEN [r |-> (b % 32) * 64 + (p[2] % 64), size |-> 2]
        ELSE IF ~IsCont(p[3]) THEN bad
        ELSE IF n = 3
             THEN [r |-> (b % 16) * 4096 + (p[2] % 64) * 64 + (p[3] % 64), size |-> 3]
        ELSE IF ~IsCont(p[4]) THEN bad
        ELSE [r |-> (b % 8) * 262144 + (p[2] % 64) * 4096 + (p[3] % 64) * 64 + (p[4] % 64),
              size |-> 4]

\* utf8.FullRune(p): p begins with a whole encoding (an invalid one is whole)
FullRune(p) ==
    IF p = <<>> THEN FALSE
    ELSE LET n == Utf8Need(p[1])
         IN  \/ n <= 1
             \/ Len(p) >= n
             \/ (Len(p) >= 2 /\ ~Utf8Second(p[1], p[2]))
             \/ (Len(p) >= 3 /\ ~IsCont(p[3]))

\* utf8.EncodeRune, for the code points the user types
EncodeRune(r) ==
    IF r < 128 THEN <<r>>
    ELSE IF r < 2048 THEN <<192 + (r \div 64), 128 + (r % 64)>>
    ELSE IF r < 65536
         THEN <<224 + (r \div 4096), 128 + ((r \div 64) % 64), 128 + (r % 64)>>
    ELSE <<240 + (r \div 262144), 128 + ((r \div 4096) % 64),
           128 + ((r \div 64) % 64), 128 + (r % 64)>>


(***************************************************************************)
(* The pure helpers of the editor.                                         *)
(***************************************************************************)
RECURSIVE SkipLeft(_, _, _)
\* for cursor > 0 && IsSpace(line[cursor-1]) == space { cursor-- }
SkipLeft(l, c, space) ==
    IF c > 0 /\ (IsSpace(l[c]) = space) THEN SkipLeft(l, c - 1, space) ELSE c

RECURSIVE SkipRight(_, _, _)
\* for cursor < len(line) && IsSpace(line[cursor]) == space { cursor++ }
SkipRight(l, c, space) ==
    IF c < Len(l) /\ (IsSpace(l[c + 1]) = space) THEN SkipRight(l, c + 1, space) ELSE c

\* a moveCursorWordLeft without the loop over the whitespace
moveCursorWordLeftNoSpace(l, c) == SkipLeft(l, c, FALSE)

moveCursorWordLeft(l, c) == SkipLeft(l, SkipLeft(l, c, TRUE), FALSE)

moveCursorWordRight(l, c) == SkipRight(l, SkipRight(l, c, TRUE), FALSE)

\* a backwardKillWord without the loop over the whitespace
backwardKillWordNoSpace(l, c) ==
    LET start == SkipLeft(l, c, FALSE)
    IN  [line |-> Slice(l, 0, start) \o Slice(l, c, Len(l)), cursor |-> start]

\* [line, cursor] after append(line[:start], line[cursor:]...), start
backwardKillWord(l, c) ==
    LET start == SkipLeft(l, SkipLeft(l, c, TRUE), FALSE)
    IN  [line |-> Slice(l, 0, start) \o Slice(l, c, Len(l)), cursor |-> start]

\* a backwardKillLine that leaves the cursor where it was
backwardKillLineKeepCursor(l, c) == [line |-> Slice(l, c, Len(l)), cursor |-> c]

backwardKillLine(l, c) == [line |-> Slice(l, c, Len(l)), cursor |-> 0]

\* a delete of the character before the cursor
deleteBefore(l, c) ==
    IF c > 0 THEN Slice(l, 0, c - 1) \o Slice(l, c, Len(l)) ELSE l

\* append(line[:cursor], line[cursor+1:]...) when cursor < len(line)
deleteForward(l, c) ==
    IF c < Len(l) THEN Slice(l, 0, c) \o Slice(l, c + 1, Len(l)) ELSE l

\* a backspace that does not test cursor > 0
backspaceUnchecked(l, c) ==
    [line |-> Slice(l, 0, c - 1) \o Slice(l, c, Len(l)), cursor |-> c - 1]

\* the backspace case: [line, cursor]
backspace(l, c) ==
    IF c > 0
    THEN [line |-> Slice(l, 0, c - 1) \o Slice(l, c, Len(l)), cursor |-> c - 1]
    ELSE [line |-> l, cursor |-> c]

\* an insert that leaves the cursor where it was
insertRuneNoAdvance(l, c, r) ==
    [line |-> Slice(l, 0, c) \o <<r>> \o Slice(l, c, Len(l)), cursor |-> c]

\* the default case: insert r at the cursor: [line, cursor]
insertRune(l, c, r) ==
    [line |-> Slice(l, 0, c) \o <<r>> \o Slice(l, c, Len(l)), cursor |-> c + 1]

(***************************************************************************)
(* Escape sequences.  A sequence identifier is the bytes after ESC.        *)
(***************************************************************************)
EscCap == 16

isEscapeSequenceTerminator(b) ==
    \/ b = 126 \/ b = 127 \/ IsControl(b)
    \/ (b >= 65 /\ b <= 90) \/ (b >= 97 /\ b <= 122)

RECURSIVE EscScan(_, _)
\* the bytes readEscapeSequence takes from p, having taken i of them
EscScan(p, i) ==
    IF i >= EscCap \/ i >= Len(p) THEN i
    ELSE IF isEscapeSequenceTerminator(p[i + 1]) THEN i + 1
    ELSE EscScan(p, i + 1)

\* the loop of readEscapeSequence ended by itself within the bytes of p
EscWhole(p) ==
    LET n == EscScan(p, 0)
    IN  n = EscCap \/ (n > 0 /\ isEscapeSequenceTerminator(p[n]))

\* readEscapeSequence on the buffered bytes p followed by end ("eof", "err"):
\* [seq, n, err], n the bytes consumed
readEscapeSequence(p, end) ==
    LET n == EscScan(p, 0)
    IN  IF EscWhole(p) \/ end = "eof"
        THEN [seq |-> Slice(p, 0, n), n |-> n, err |-> "nil"]
        ELSE [seq |-> <<>>, n |-> n, err |-> "io"]

SeqLeft     == { <<91, 68>>, <<79, 68>> }                              \* [D OD
SeqRight    == { <<91, 67>>, <<79, 67>> }                              \* [C OC
SeqHome     == { <<91, 72>>, <<91, 49, 126>>, <<91, 55, 126>>, <<79, 72>> }  \* [H [1~ [7~ OH
SeqEnd      == { <<91, 70>>, <<91, 52, 126>>, <<91, 56, 126>>, <<79, 70>> }  \* [F [4~ [8~ OF
SeqDelete   == { <<91, 51, 126>> }                                     \* [3~
SeqWordLeft == { <<98>>, <<66>>, <<91, 49, 59, 53, 68>>, <<91, 53, 68>> }    \* b B [1;5D [5D
SeqWordRight == { <<102>>, <<70>>, <<91, 49, 59, 53, 67>>, <<91, 53, 67>> }  \* f F [1;5C [5C
SeqKillWord == { <<127>>, <<8>>, <<91, 51, 59, 51, 126>>,
                 <<91, 56, 59, 51, 117>>, <<91, 49, 50, 55, 59, 51, 117>> }  \* \x7f \x08 [3;3~ [8;3u [127;3u
SeqTable == SeqLeft \cup SeqRight \cup SeqHome \cup SeqEnd \cup SeqDelete
            \cup SeqWordLeft \cup SeqWordRight \cup SeqKillWord

\* an applyEscapeSequence that takes every other sequence for Home
applyEscapeSequenceOtherHome(seq, l, c) ==
    CASE seq \in SeqLeft      -> [line |-> l, cursor |-> IF c > 0 THEN c - 1 ELSE c]
      [] seq \in SeqRight     -> [line |-> l, cursor |-> IF c < Len(l) THEN c + 1 ELSE c]
      [] seq \in SeqEnd       -> [line |-> l, cursor |-> Len(l)]
      [] seq \in SeqDelete    -> [line |-> deleteForward(l, c), cursor |-> c]
      [] seq \in SeqWordLeft  -> [line |-> l, cursor |-> moveCursorWordLeft(l, c)]
      [] seq \in SeqWordRight -> [line |-> l, cursor |-> moveCursorWordRight(l, c)]
      [] seq \in SeqKillWord  -> backwardKillWord(l, c)
      [] OTHER                -> [line |-> l, cursor |-> 0]

\* [line, cursor]
applyEscapeSequence(seq, l, c) ==
    CASE seq \in SeqLeft      -> [line |-> l, cursor |-> IF c > 0 THEN c - 1 ELSE c]
      [] seq \in SeqRight     -> [line |-> l, cursor |-> IF c < Len(l) THEN c + 1 ELSE c]
      [] seq \in SeqHome      -> [line |-> l, cursor |-> 0]
      [] seq \in SeqEnd       -> [line |-> l, cursor |-> Len(l)]
      [] seq \in SeqDelete    -> [line |-> deleteForward(l, c), cursor |-> c]
      [] seq \in SeqWordLeft  -> [line |-> l, cursor |-> moveCursorWordLeft(l, c)]
      [] seq \in SeqWordRight -> [line |-> l, cursor |-> moveCursorWordRight(l, c)]
      [] seq \in SeqKillWord  -> backwardKillWord(l, c)
      [] OTHER                -> [line |-> l, cursor |-> c]

(***************************************************************************)
(* The renderer: what a redraw writes.                                     *)
(***************************************************************************)
\* [row, col]
visualPosition(inputCol, index, width) ==
    [row |-> (inputCol + index) \div width, col |-> (inputCol + index) % width]

\* a renderedPosition without the test index > 0
renderedPositionAnyIndex(inputCol, index, width) ==
    LET absolute == inputCol + index
    IN  IF absolute % width = 0
        THEN [row |-> (absolute \div width) - 1, col |-> width - 1]
        ELSE [row |-> absolute \div width, col |-> absolute % width]

\* a renderedPosition that takes the cursor to have wrapped already
renderedPositionWrapped(inputCol, index, width) ==
    [row |-> (inputCol + index) \div width, col |-> (inputCol + index) % width]

renderedPosition(inputCol, index, width) ==
    LET absolute == inputCol + index
    IN  IF index > 0 /\ absolute % width = 0
        THEN [row |-> (absolute \div width) - 1, col |-> width - 1]
        ELSE [row |-> absolute \div width, col |-> absolute % width]

moveCursor(fromRow, toRow, toCol) ==
    (IF fromRow > toRow THEN << <<"CUU", fromRow - toRow>> >>
     ELSE IF fromRow < toRow THEN << <<"CUD", toRow - fromRow>> >>
     ELSE <<>>)
    \o << <<"ch", 13>> >>
    \o (IF toCol > 0 THEN << <<"CUF", toCol>> >> ELSE <<>>)

moveVisualCursor(inputCol, width, fromIndex, toIndex) ==
    IF fromIndex = toIndex THEN <<>>
    ELSE moveCursor(visualPosition(inputCol, fromIndex, width).row,
                    visualPosition(inputCol, toIndex, width).row,
                    visualPosition(inputCol, toIndex, width).col)

moveRenderedCursorToLogical(inputCol, width, renderedIndex, logicalIndex) ==
    moveCursor(renderedPosition(inputCol, renderedIndex, width).row,
               visualPosition(inputCol, logicalIndex, width).row,
               visualPosition(inputCol, logicalIndex, width).col)

redrawTerminalLineLegacy(l, oldCursor, c) ==
    (IF oldCursor > 0 THEN << <<"CUB", oldCursor>> >> ELSE <<>>)
    \o Str(l)
    \o << <<"EL", 0>> >>
    \o (IF Len(l) - c > 0 THEN << <<"CUB", Len(l) - c>> >> ELSE <<>>)

redrawTerminalLine(l, oldLen, oldCursor, c, offset, terminalWidth) ==
    IF terminalWidth <= 0 THEN redrawTerminalLineLegacy(l, oldCursor, c)
    ELSE LET inputCol == offset % terminalWidth
             printedLen == IF oldLen > Len(l) THEN oldLen ELSE Len(l)
         IN  moveVisualCursor(inputCol, terminalWidth, oldCursor, 0)
             \o Str(l)
             \o [i \in 1..(printedLen - Len(l)) |-> <<"ch", 32>>]
             \o moveRenderedCursorToLogical(inputCol, terminalWidth, printedLen, c)

\* an eofValue that prefers the default to the buffer
eofValueDefaultFirst(input) ==
    IF defaultTo /= <<>> THEN [val |-> defaultTo, err |-> "nil"]
    ELSE IF input /= <<>> THEN [val |-> input, err |-> "nil"]
    ELSE IF ~optional THEN [val |-> <<>>, err |-> "ErrRequired"]
    ELSE [val |-> <<>>, err |-> "nil"]

\* eofValue(input): [val, err]
eofValue(input) ==
    IF input /= <<>> THEN [val |-> input, err |-> "nil"]
    ELSE IF defaultTo /= <<>> THEN [val |-> defaultTo, err |-> "nil"]
    ELSE IF ~optional THEN [val |-> <<>>, err |-> "ErrRequired"]
    ELSE [val |-> <<>>, err |-> "nil"]

\* handleInterrupt: what it writes
InterruptText == Str(<<94, 67, 13, 10>>)   \* "^C\r\n"
NewlineText   == Str(<<13, 10>>)           \* "\r\n"

(***************************************************************************)
(* SpecEditor: the user and the terminal.                                  *)
(*                                                                         *)
(* The user types keystrokes, the terminal delivers their bytes to the     *)
(* reader.  A keystroke is typed when the reader is drained, and a key of  *)
(* FollowKeys also when the editor's read would block in the middle of a   *)
(* sequence; pasted text is a keystroke of several keys.  The              *)
(* editor depends on the bytes only, not on when they arrive.              *)
(***************************************************************************)
TypedRunes   == {233, 32}              \* e-acute (two bytes), space
TextKeys     == { EncodeRune(r) : r \in TypedRunes }
ControlBytes == {13, 10, 3, 1, 2, 5, 6, 11, 21, 23, 4, 8, 127, 7}
ControlKeys  == { <<b>> : b \in ControlBytes }
\* every sequence of the table but OC and OH (OD and OF stand for the SS3 forms)
EscapeKeys   == { <<27>> \o s : s \in (SeqTable \ { <<79, 67>>, <<79, 72>> })
                                       \cup { <<>>, <<91, 90>>, <<91>> } }
FollowKeys   == { <<169>>, <<32>>, <<13>>, <<3>> }     \* typed into a read that blocks
RawKeys      == { <<195>>, <<169>>, <<194, 133>> }  \* a lone lead byte, a lone continuation, U+0085
PasteKeys    == { <<13, 32>>, <<10, 13>>, <<3, 32>>, <<4, 32>> }
Keystrokes   == TextKeys \cup ControlKeys \cup EscapeKeys \cup RawKeys \cup PasteKeys

TermWidths   == {0, 4}                 \* what getTerminalWidth answers
InputOffsets == {6}
Defaults     == { <<>>, <<121>> }      \* "", "y"

\* the bytes handled by a case of the switch other than default
SwitchBytes == {13, 10, 3, 1, 2, 5, 6, 11, 21, 23, 4, 8, 127, 27}

\* the next loop iteration of readTerminalLine would block in a read
ReadBlocks ==
    /\ readerEnd = "open"
    /\ IF reader = <<>> THEN TRUE
       ELSE IF reader[1] = 27 THEN ~EscWhole(Tail(reader))
       ELSE reader[1] \notin SwitchBytes /\ ~FullRune(reader)

\* what the user typed: kind "plain" while only non-control code points were
\* typed (runes), "enter" once a CR or LF followed them (after: what was
\* pasted behind it), "other" from the first other keystroke on
FedOf(k) ==
    IF fed.kind = "plain" /\ k \in TextKeys
    THEN [fed EXCEPT !.runes = Append(@, DecodeRune(k).r)]
    ELSE IF fed.kind = "plain" /\ k[1] \in {13, 10}
    THEN [fed EXCEPT !.kind = "enter", !.after = Tail(k)]
    ELSE [kind |-> "other", runes |-> <<>>, after |-> <<>>]

UserTypes(k) ==
    /\ edPc \in {"start", "reading"}
    /\ readerEnd = "open"
    /\ \/ reader = <<>>
       \/ /\ edPc = "reading" /\ ReadBlocks
          /\ k \in FollowKeys
          /\ Len(reader) + Len(k) <= MaxPending
    /\ reader' = reader \o k
    /\ fed' = FedOf(k)
    /\ lastWrite' = <<>>
    /\ UNCHANGED <<readerEnd, cfgVars, askVars, fnVars, edPc, termRaw, restoreCount, line,
                   cursor, edRet, inputOffset>>

\* the input ends (end |-> "eof") or the device fails (end |-> "err"), which
\* the editor learns when the reader is drained or its read blocks
StreamEnds(end) ==
    /\ edPc \in {"start", "reading"}
    /\ readerEnd = "open"
    /\ reader = <<>> \/ (edPc = "reading" /\ ReadBlocks)
    /\ readerEnd' = end
    /\ UNCHANGED <<reader, cfgVars, askVars, fnVars, edVars>>

(***************************************************************************)
(* SpecEditor: readTerminalLine.                                           *)
(***************************************************************************)
\* term.MakeRaw succeeded; defer term.Restore
MakeRawOk ==
    /\ edPc = "start"
    /\ edPc' = "reading"
    /\ termRaw' = TRUE
    /\ UNCHANGED <<reader, readerEnd, cfgVars, askVars, fnVars, restoreCount, line, cursor, edRet,
                   inputOffset, lastWrite, fed>>

\* term.MakeRaw failed: return "", err
MakeRawFails ==
    /\ edPc = "start"
    /\ edPc' = "returned"
    /\ edRet' = [val |-> <<>>, err |-> "raw", via |-> "MakeRaw"]
    /\ UNCHANGED <<reader, readerEnd, cfgVars, askVars, fnVars, termRaw, restoreCount, line, cursor,
                   inputOffset, lastWrite, fed>>

\* a return that restores the terminal on the error-free returns only
ReturnRestoreIfOk(n, via, r, out) ==
    /\ edPc' = "returned"
    /\ edRet' = [val |-> r.val, err |-> r.err, via |-> via]
    /\ termRaw' = (r.err /= "nil")
    /\ restoreCount' = IF r.err = "nil" THEN restoreCount + 1 ELSE restoreCount
    /\ reader' = Slice(reader, n, Len(reader))
    /\ lastWrite' = out
    /\ UNCHANGED <<readerEnd, cfgVars, askVars, fnVars, line, cursor, inputOffset, fed>>

\* the return `via` of the loop, with r = [val, err], having consumed n bytes
\* and written out: the deferred term.Restore runs
Return(n, via, r, out) ==
    /\ edPc' = "returned"
    /\ edRet' = [val |-> r.val, err |-> r.err, via |-> via]
    /\ termRaw' = FALSE
    /\ restoreCount' = restoreCount + 1
    /\ reader' = Slice(reader, n, Len(reader))
    /\ lastWrite' = out
    /\ UNCHANGED <<readerEnd, cfgVars, askVars, fnVars, line, cursor, inputOffset, fed>>

\* a redraw that starts from the cursor of after the edit
RedrawFromNewCursor(n, new) ==
    \E w \in TermWidths :
        /\ line' = new.line
        /\ cursor' = new.cursor
        /\ reader' = Slice(reader, n, Len(reader))
        /\ lastWrite' = redrawTerminalLine(new.line, Len(line), new.cursor, new.cursor,
                                           inputOffset, w)
        /\ UNCHANGED <<readerEnd, cfgVars, askVars, fnVars, edPc, termRaw, restoreCount, edRet,
                       inputOffset, fed>>

\* the end of a loop iteration that reaches the redraw, having consumed n
\* bytes: new is [line, cursor]
Redraw(n, new) ==
    \E w \in TermWidths :
        /\ line' = new.line
        /\ cursor' = new.cursor
        /\ reader' = Slice(reader, n, Len(reader))
        /\ lastWrite' = redrawTerminalLine(new.line, Len(line), cursor, new.cursor,
                                           inputOffset, w)
        /\ UNCHANGED <<readerEnd, cfgVars, askVars, fnVars, edPc, termRaw, restoreCount, edRet,
                       inputOffset, fed>>

\* the `continue` of the default case: no redraw
Continue(n) ==
    /\ reader' = Slice(reader, n, Len(reader))
    /\ lastWrite' = <<>>
    /\ UNCHANGED <<readerEnd, cfgVars, askVars, fnVars, edPc, termRaw, restoreCount, line, cursor,
                   edRet, inputOffset, fed>>

IoErr == [val |-> <<>>, err |-> "io"]

\* q.reader.ReadByte() returned b
Got(b) == edPc = "reading" /\ reader /= <<>> /\ reader[1] = b

ReadByteEOF ==
    /\ edPc = "reading" /\ reader = <<>> /\ readerEnd = "eof"
    /\ Return(0, "ReadByteEOF", eofValue(line), <<>>)

ReadByteFails ==
    /\ edPc = "reading" /\ reader = <<>> /\ readerEnd = "err"
    /\ Return(0, "ReadByte", IoErr, <<>>)

Enter ==
    \E b \in {13, 10} : Got(b) /\ Return(1, "Enter", [val |-> line, err |-> "nil"], NewlineText)

CtrlC == Got(3) /\ Return(1, "CtrlC", [val |-> <<>>, err |-> "ErrInterrupted"], InterruptText)

CtrlA == Got(1) /\ Redraw(1, [line |-> line, cursor |-> 0])

CtrlB == Got(2) /\ Redraw(1, [line |-> line, cursor |-> IF cursor > 0 THEN cursor - 1 ELSE cursor])

CtrlE == Got(5) /\ Redraw(1, [line |-> line, cursor |-> Len(line)])

CtrlF ==
    Got(6) /\ Redraw(1, [line |-> line,
                            cursor |-> IF cursor < Len(line) THEN cursor + 1 ELSE cursor])

CtrlK == Got(11) /\ Redraw(1, [line |-> Slice(line, 0, cursor), cursor |-> cursor])

CtrlU == Got(21) /\ Redraw(1, backwardKillLine(line, cursor))

CtrlW == Got(23) /\ Redraw(1, backwardKillWord(line, cursor))

CtrlD ==
    /\ Got(4)
    /\ IF Len(line) = 0
       THEN Return(1, "CtrlD", eofValue(<<>>), <<>>)
       ELSE Redraw(1, [line |-> deleteForward(line, cursor), cursor |-> cursor])

Backspace == \E b \in {8, 127} : Got(b) /\ Redraw(1, backspace(line, cursor))

Escape ==
    /\ Got(27)
    /\ ~ReadBlocks
    /\ LET e == readEscapeSequence(Tail(reader), readerEnd)
       IN  IF e.err /= "nil"
           THEN Return(1 + e.n, "readEscapeSequence", IoErr, <<>>)
           ELSE Redraw(1 + e.n, applyEscapeSequence(e.seq, line, cursor))

\* the default case: UnreadByte, then ReadRune decodes from the byte again
Default ==
    /\ edPc = "reading" /\ reader /= <<>> /\ reader[1] \notin SwitchBytes
    /\ ~ReadBlocks
    /\ LET d == DecodeRune(reader)
       IN  IF IsControl(d.r)
           THEN Continue(d.size)
           ELSE /\ Len(line) < MaxLine
                /\ Redraw(d.size, insertRune(line, cursor, d.r))

\* the two error returns of the default case.  A bufio.Reader does not fail
\* in UnreadByte or ReadRune right after a ReadByte that succeeded; the
\* branches are in the code and are kept as faults of the reader.
DefaultFails ==
    /\ edPc = "reading" /\ reader /= <<>> /\ reader[1] \notin SwitchBytes
    /\ \E f \in {"unread", "rune", "runeEOF"} :
          CASE f = "unread"  -> Return(1, "UnreadByte", IoErr, <<>>)
            [] f = "rune"    -> Return(1, "ReadRune", IoErr, <<>>)
            [] f = "runeEOF" -> Return(1, "ReadRuneEOF", eofValue(line), <<>>)

EditorStep ==
    \/ MakeRawOk \/ MakeRawFails
    \/ ReadByteEOF \/ ReadByteFails
    \/ Enter \/ CtrlC \/ CtrlA \/ CtrlB \/ CtrlE \/ CtrlF \/ CtrlK \/ CtrlU \/ CtrlW
    \/ CtrlD \/ Backspace \/ Escape \/ Default \/ DefaultFails

NoWorker == [pc |-> "none", val |-> <<>>, err |-> "nil", raw |-> <<>>, nl |-> FALSE]

AskIdle ==
    /\ op = "none" /\ askPc = "off" /\ askRet = [val |-> <<>>, err |-> "nil", yes |-> FALSE]
    /\ answer = <<>> /\ cancelled = FALSE /\ worker = NoWorker
    /\ chanClosed = FALSE /\ writer = <<>> /\ hist = <<>>

FnIdle == leaked = NoWorker /\ term = <<>> /\ call = <<>>

InitEditor ==
    /\ reader = <<>>
    /\ readerEnd = "open"
    /\ defaultTo \in Defaults
    /\ optional \in BOOLEAN
    /\ checks = <<>>
    /\ edPc = "start"
    /\ termRaw = FALSE
    /\ restoreCount = 0
    /\ line = <<>>
    /\ cursor = 0
    /\ edRet = [val |-> <<>>, err |-> "nil", via |-> "none"]
    /\ inputOffset \in InputOffsets
    /\ lastWrite = <<>>
    /\ fed = [kind |-> "plain", runes |-> <<>>, after |-> <<>>]
    /\ AskIdle
    /\ FnIdle

NextEditor ==
    \/ \E k \in Keystrokes : UserTypes(k)
    \/ \E end \in {"eof", "err"} : StreamEnds(end)
    \/ EditorStep

SpecEditor == InitEditor /\ [][NextEditor]_vars

(***************************************************************************)
(* SpecAsk: Ask, Password and Confirm on a reader that is not a terminal.  *)
(* The reader holds the bytes of the input; readerEnd says what a read     *)
(* finds behind them: "eof", a read error ("err"), or nothing yet ("open", *)
(* the read blocks).  The caller and the goroutine it starts take their    *)
(* steps in any order, and the context may be cancelled at any time.       *)
(***************************************************************************)
MaxLines   == 2   \* lines the input holds
MaxPrompts == 3   \* prompts a call writes before the model stops following it

Y    == <<121>>                  \* "y"
Yes  == <<121, 101, 115>>        \* "yes"
N    == <<110>>                  \* "n"
No   == <<110, 111>>             \* "no"
True == <<116, 114, 117, 101>>   \* "true"

\* strings.ToLower, on ASCII
ToLower(s) == [i \in 1..Len(s) |-> IF s[i] \in 65..90 THEN s[i] + 32 ELSE s[i]]

\* strings.TrimRight(input, "\r\n")
RECURSIVE TrimRight(_)
TrimRight(s) ==
    IF s /= <<>> /\ s[Len(s)] \in {13, 10} THEN TrimRight(SubSeq(s, 1, Len(s) - 1))
    ELSE s

isYes(s) == ToLower(s) \in {Y, Yes, True}

\* the check Confirm appends: TRUE when it returns an error
confirmCheckCaseSensitive(s) == s \notin {Y, Yes, N, No}

confirmCheck(s) == ToLower(s) \notin {Y, Yes, N, No}

\* the checks a caller configures with WithCheck: TRUE when c returns an error for s
CheckNames == {"min2", "notX"}

CheckRejects(c, s) ==
    CASE c = "min2"  -> Len(s) < 2
      [] c = "notX"  -> s = <<120>>
      [] c = "yesno" -> confirmCheck(s)

CheckLists == { <<>>, <<"min2">>, <<"min2", "notX">>, <<"notX", "min2">> }

\* the position in cs of the last check that rejects s, 0 when none does
LastRejecting(cs, s) ==
    LET R == {i \in 1..Len(cs) : CheckRejects(cs[i], s)}
    IN  IF R = {} THEN 0 ELSE CHOOSE i \in R : \A j \in R : j <= i

\* the loop over q.checks: the position of the first check that rejects s, 0 when none does
FirstRejecting(cs, s) ==
    LET R == {i \in 1..Len(cs) : CheckRejects(cs[i], s)}
    IN  IF R = {} THEN 0 ELSE CHOOSE i \in R : \A j \in R : i <= j

\* what the input holds
Answers     == { <<>>, Y, <<89, 101, 115>>, No, <<120>> }   \* "", "y", "Yes", "no", "x"
AnswerLines == { a \o <<10>> : a \in Answers } \cup { Y \o <<13, 10>> }
Partials    == { <<>>, Y, <<120>> }                        \* a last line without newline

RECURSIVE Streams(_)
Streams(n) ==
    IF n = 0 THEN { <<>> }
    ELSE Streams(n - 1) \cup { l \o s : l \in AnswerLines, s \in Streams(n - 1) }

\* bufio.Reader.ReadString('\n'): the index of the first newline, 0 when there is none
RECURSIVE IndexNewline(_, _)
IndexNewline(s, i) ==
    IF i > Len(s) THEN 0 ELSE IF s[i] = 10 THEN i ELSE IndexNewline(s, i + 1)

PromptText == <<"prompt", "">>     \* prompt and " "
NewlineOut == <<"nl", "">>         \* Fprintln(q.writer)
ErrorLine(c) == <<"errln", c>>     \* Fprintln(q.writer, err), err of check c

EditorIdle ==
    /\ edPc = "off" /\ termRaw = FALSE /\ restoreCount = 0 /\ line = <<>> /\ cursor = 0
    /\ edRet = [val |-> <<>>, err |-> "nil", via |-> "none"]
    /\ inputOffset = 0 /\ lastWrite = <<>>
    /\ fed = [kind |-> "plain", runes |-> <<>>, after |-> <<>>]

\* hist: reads counts the calls of readInput / readPassword; answers lists the
\* inputs they returned; raw and nl are what ReadString gave the goroutine of
\* the last of them (nl: it ended in a newline); cancelled0 says the context
\* was cancelled when the call was made; reader0 is the reader at that time;
\* cancelAt is the goroutine's position when the context was cancelled.
InitAsk ==
    /\ reader \in { s \o p : s \in Streams(MaxLines), p \in Partials }
    /\ readerEnd \in {"open", "eof", "err"}
    /\ defaultTo \in Defaults
    /\ optional \in BOOLEAN
    /\ checks \in CheckLists
    /\ op \in {"Ask", "Password", "Confirm"}
    /\ askPc = "call"
    /\ askRet = [val |-> <<>>, err |-> "nil", yes |-> FALSE]
    /\ answer = <<>>
    /\ cancelled = FALSE
    /\ worker = NoWorker
    /\ chanClosed = FALSE
    /\ writer = <<>>
    /\ hist = [reads |-> 0, answers |-> <<>>, raw |-> <<>>, nl |-> FALSE,
               cancelled0 |-> FALSE, reader0 |-> reader, cancelAt |-> "never"]
    /\ EditorIdle
    /\ FnIdle

\* the call returns: Ask and Password return (val, err); Confirm returns
\* (isYes(val), nil) or (false, err)
AskReturn(val, err) ==
    /\ askPc' = "returned"
    /\ askRet' = [val |-> val, err |-> err,
                  yes |-> op = "Confirm" /\ err = "nil" /\ isYes(val)]

\* Ask, Password or Confirm is called; Confirm appends its check
Call ==
    /\ askPc = "call"
    /\ askPc' = "prompt"
    /\ checks' = IF op = "Confirm" THEN Append(checks, "yesno") ELSE checks
    /\ hist' = [hist EXCEPT !.cancelled0 = cancelled]
    /\ UNCHANGED <<reader, readerEnd, defaultTo, optional, edVars, fnVars, op, askRet, answer,
                   cancelled, worker, chanClosed, writer>>

\* the label retry: the prompt is written
WritePrompt ==
    /\ askPc = "prompt"
    /\ Len(SelectSeq(writer, LAMBDA t : t = PromptText)) < MaxPrompts
    /\ writer' = Append(writer, PromptText)
    /\ askPc' = "readInput"
    /\ UNCHANGED <<reader, readerEnd, cfgVars, edVars, fnVars, op, askRet, answer, cancelled,
                   worker, chanClosed, hist>>

\* readInput that starts the goroutine whatever ctx.Err() says
readInputNoCtxCheck ==
    /\ askPc = "readInput"
    /\ hist' = [hist EXCEPT !.reads = @ + 1]
    /\ askPc' = "select"
    /\ worker' = [NoWorker EXCEPT !.pc = "read"]
    /\ chanClosed' = FALSE
    /\ UNCHANGED <<reader, readerEnd, cfgVars, edVars, fnVars, op, answer, cancelled, writer, askRet>>

\* readInput / readPassword up to the select: the test of ctx.Err(), the two
\* channels, the goroutine
readInput ==
    /\ askPc = "readInput"
    /\ hist' = [hist EXCEPT !.reads = @ + 1]
    /\ IF cancelled
       THEN /\ AskReturn(<<>>, "Canceled")
            /\ UNCHANGED <<worker, chanClosed>>
       ELSE /\ askPc' = "select"
            /\ worker' = [NoWorker EXCEPT !.pc = "read"]
            /\ chanClosed' = FALSE
            /\ UNCHANGED askRet
    /\ UNCHANGED <<reader, readerEnd, cfgVars, edVars, fnVars, op, answer, cancelled, writer>>

\* the goroutine: scanLine, from ReadString to the send it then blocks in.
\* ReadString blocks while the reader holds no newline and has not ended.
scanLine ==
    /\ worker.pc = "read"
    /\ LET i     == IndexNewline(reader, 1)
           input == IF i > 0 THEN SubSeq(reader, 1, i) ELSE reader
           err   == IF i > 0 THEN "nil" ELSE readerEnd
           send(pc, v, e) == [pc |-> pc, val |-> v, err |-> e, raw |-> input, nl |-> i > 0]
       IN  /\ i > 0 \/ readerEnd /= "open"
           /\ reader' = IF i > 0 THEN Slice(reader, i, Len(reader)) ELSE <<>>
           /\ worker' = IF err = "err" THEN send("sendErr", <<>>, "io")
                        ELSE IF err = "eof" /\ defaultTo /= <<>>
                             THEN send("sendInput", defaultTo, "nil")
                        ELSE IF err = "eof" /\ ~optional
                             THEN send("sendErr", <<>>, "ErrRequired")
                        ELSE send("sendInput", TrimRight(input), "nil")
    /\ UNCHANGED <<readerEnd, cfgVars, edVars, fnVars, op, askPc, askRet, answer, cancelled,
                   chanClosed, writer, hist>>

\* select, case input := <-inputCh
SelectInput ==
    /\ askPc = "select" /\ worker.pc = "sendInput"
    /\ answer' = worker.val
    /\ worker' = [worker EXCEPT !.pc = "done"]
    /\ chanClosed' = TRUE
    /\ askPc' = "empty"
    /\ hist' = [hist EXCEPT !.answers = Append(@, worker.val),
                            !.raw = worker.raw, !.nl = worker.nl]
    /\ UNCHANGED <<reader, readerEnd, cfgVars, edVars, fnVars, op, askRet, cancelled, writer>>

\* select, case err := <-errorCh
SelectError ==
    /\ askPc = "select" /\ worker.pc = "sendErr"
    /\ worker' = [worker EXCEPT !.pc = "done"]
    /\ chanClosed' = TRUE
    /\ AskReturn(<<>>, worker.err)
    /\ UNCHANGED <<reader, readerEnd, cfgVars, edVars, fnVars, op, answer, cancelled, writer, hist>>

\* a case <-ctx.Done() that closes the channels as the other two cases do
SelectDoneCloses ==
    /\ askPc = "select" /\ cancelled
    /\ AskReturn(<<>>, "Canceled")
    /\ chanClosed' = TRUE
    /\ UNCHANGED <<reader, readerEnd, cfgVars, edVars, fnVars, op, answer, cancelled, worker,
                   writer, hist>>

\* select, case <-ctx.Done(): the goroutine is left behind
SelectDone ==
    /\ askPc = "select" /\ cancelled
    /\ AskReturn(<<>>, "Canceled")
    /\ UNCHANGED <<reader, readerEnd, cfgVars, edVars, fnVars, op, answer, cancelled, worker,
                   chanClosed, writer, hist>>

\* Ask that lets the default win over what was typed
AskEmptyDefaultFirst ==
    /\ askPc = "empty"
    /\ writer' = IF op = "Password" THEN Append(writer, NewlineOut) ELSE writer
    /\ IF defaultTo /= <<>> THEN AskReturn(defaultTo, "nil")
       ELSE IF answer = <<>> /\ ~optional THEN askPc' = "prompt" /\ UNCHANGED askRet
       ELSE askPc' = "checks" /\ UNCHANGED askRet
    /\ UNCHANGED <<reader, readerEnd, cfgVars, edVars, fnVars, op, answer, cancelled, worker,
                   chanClosed, hist>>

\* Ask / Password after the read: Password's newline, then the empty input
AskEmpty ==
    /\ askPc = "empty"
    /\ writer' = IF op = "Password" THEN Append(writer, NewlineOut) ELSE writer
    /\ IF answer = <<>> /\ defaultTo /= <<>> THEN AskReturn(defaultTo, "nil")
       ELSE IF answer = <<>> /\ ~optional THEN askPc' = "prompt" /\ UNCHANGED askRet
       ELSE askPc' = "checks" /\ UNCHANGED askRet
    /\ UNCHANGED <<reader, readerEnd, cfgVars, edVars, fnVars, op, answer, cancelled, worker,
                   chanClosed, hist>>

\* Ask / Password, the loop over q.checks and the return behind it
AskChecks ==
    /\ askPc = "checks"
    /\ LET i == FirstRejecting(checks, answer)
       IN  IF i > 0
           THEN /\ writer' = Append(writer, ErrorLine(checks[i]))
                /\ askPc' = "prompt"
                /\ UNCHANGED askRet
           ELSE /\ AskReturn(answer, "nil")
                /\ UNCHANGED writer
    /\ UNCHANGED <<reader, readerEnd, cfgVars, edVars, fnVars, op, answer, cancelled, worker,
                   chanClosed, hist>>

\* the context is cancelled
Cancel ==
    /\ ~cancelled /\ askPc /= "returned"
    /\ cancelled' = TRUE
    /\ hist' = [hist EXCEPT !.cancelAt = worker.pc]
    /\ UNCHANGED <<reader, readerEnd, cfgVars, edVars, fnVars, op, askPc, askRet, answer, worker,
                   chanClosed, writer>>

NextAsk ==
    \/ Call \/ WritePrompt \/ readInput \/ scanLine
    \/ SelectInput \/ SelectError \/ SelectDone
    \/ AskEmpty \/ AskChecks \/ Cancel

SpecAsk == InitAsk /\ [][NextAsk]_vars

(***************************************************************************)
(* SpecReuse: Ask is called again, with the same reader and a fresh        *)
(* context, after a call that the cancellation ended.  The goroutine the   *)
(* first call left behind (readInput, case <-ctx.Done()) still runs        *)
(* scanLine on the reader the later call reads; input may arrive late.     *)
(***************************************************************************)
MaxCalls == 2   \* calls of Ask that are followed

InitReuse ==
    /\ reader \in Streams(1)
    /\ readerEnd \in {"open", "eof"}
    /\ defaultTo \in Defaults
    /\ optional \in BOOLEAN
    /\ checks = <<>>
    /\ op = "Ask"
    /\ askPc = "call"
    /\ askRet = [val |-> <<>>, err |-> "nil", yes |-> FALSE]
    /\ answer = <<>>
    /\ cancelled = FALSE
    /\ worker = NoWorker
    /\ chanClosed = FALSE
    /\ writer = <<>>
    /\ hist = [reads |-> 0, answers |-> <<>>, raw |-> <<>>, nl |-> FALSE,
               cancelled0 |-> FALSE, reader0 |-> reader, cancelAt |-> "never"]
    /\ EditorIdle
    /\ leaked = NoWorker
    /\ term = <<>>
    /\ call = [n |-> 1, arrived |-> FALSE]

\* the next call of Ask, with WithReader of the same *bufio.Reader and a
\* context that is not cancelled; the goroutine of the call before, if it
\* has not delivered, stays behind
AskAgain ==
    /\ askPc = "returned" /\ askRet.err = "Canceled"
    /\ call.n < MaxCalls
    /\ leaked.pc = "none"
    /\ call' = [call EXCEPT !.n = @ + 1]
    /\ leaked' = IF worker.pc \in {"read", "sendInput", "sendErr"} THEN worker ELSE leaked
    /\ worker' = NoWorker
    /\ cancelled' = FALSE
    /\ askPc' = "call"
    /\ askRet' = [val |-> <<>>, err |-> "nil", yes |-> FALSE]
    /\ answer' = <<>>
    /\ chanClosed' = FALSE
    /\ writer' = <<>>
    /\ hist' = [reads |-> 0, answers |-> <<>>, raw |-> <<>>, nl |-> FALSE,
                cancelled0 |-> FALSE, reader0 |-> reader, cancelAt |-> "never"]
    /\ UNCHANGED <<reader, readerEnd, cfgVars, edVars, op, term>>

\* what scanLine sends after ReadString gave input and err
scanLineResult(input, err, nl) ==
    LET send(pc, v, e) == [pc |-> pc, val |-> v, err |-> e, raw |-> input, nl |-> nl]
    IN  IF err = "err" THEN send("sendErr", <<>>, "io")
        ELSE IF err = "eof" /\ defaultTo /= <<>> THEN send("sendInput", defaultTo, "nil")
        ELSE IF err = "eof" /\ ~optional THEN send("sendErr", <<>>, "ErrRequired")
        ELSE send("sendInput", TrimRight(input), "nil")

\* the goroutine left behind runs scanLine; its send then blocks for ever,
\* nothing receives from the channels of the call that returned
leakedScanLine ==
    /\ leaked.pc = "read"
    /\ LET i     == IndexNewline(reader, 1)
           input == IF i > 0 THEN SubSeq(reader, 1, i) ELSE reader
           err   == IF i > 0 THEN "nil" ELSE readerEnd
       IN  /\ i > 0 \/ readerEnd /= "open"
           /\ reader' = IF i > 0 THEN Slice(reader, i, Len(reader)) ELSE <<>>
           /\ leaked' = scanLineResult(input, err, i > 0)
    /\ UNCHANGED <<readerEnd, cfgVars, edVars, askVars, term, call>>

\* both goroutines are in ReadString on the one bufio.Reader with nothing to
\* order them: besides one of them reading before the other (scanLine,
\* leakedScanLine) the two reads may see the same buffered bytes
racingScanLine ==
    /\ leaked.pc = "read" /\ worker.pc = "read"
    /\ LET i     == IndexNewline(reader, 1)
           input == IF i > 0 THEN SubSeq(reader, 1, i) ELSE reader
           err   == IF i > 0 THEN "nil" ELSE readerEnd
       IN  /\ i > 0 \/ readerEnd /= "open"
           /\ reader' = IF i > 0 THEN Slice(reader, i, Len(reader)) ELSE <<>>
           /\ leaked' = scanLineResult(input, err, i > 0)
           /\ worker' = scanLineResult(input, err, i > 0)
    /\ UNCHANGED <<readerEnd, cfgVars, edVars, op, askPc, askRet, answer, cancelled,
                   chanClosed, writer, hist, term, call>>

\* a line is typed after the call began: the reader that blocked has input
InputArrives ==
    /\ readerEnd = "open" /\ reader = <<>> /\ ~call.arrived
    /\ \E l \in AnswerLines : reader' = l
    /\ call' = [call EXCEPT !.arrived = TRUE]
    /\ UNCHANGED <<readerEnd, cfgVars, edVars, askVars, leaked, term>>

NextReuse ==
    \/ Call \/ WritePrompt \/ readInput \/ scanLine
    \/ SelectInput \/ SelectError \/ SelectDone
    \/ AskEmpty \/ AskChecks \/ Cancel
    \/ AskAgain \/ leakedScanLine \/ racingScanLine \/ InputArrives

SpecReuse == InitReuse /\ [][NextReuse]_vars

(***************************************************************************)
(* SpecReadEscape: readEscapeSequence on the bytes that follow an ESC.     *)
(***************************************************************************)
MaxEscLen == 3   \* the length of the byte strings drawn from EscBytes

\* '[' '1' ';' 'D' '~' DEL BS, the byte 0x85, the byte 0xE9
EscBytes == {91, 49, 59, 68, 126, 127, 8, 133, 233}

RECURSIVE ByteStrings(_, _)
ByteStrings(B, n) ==
    IF n = 0 THEN { <<>> }
    ELSE ByteStrings(B, n - 1) \cup { <<b>> \o s : b \in B, s \in ByteStrings(B, n - 1) }

\* n times the byte b
Repeat(b, n) == [i \in 1..n |-> b]

\* strings around the cap of 16 bytes: no terminator at all, one at the cap,
\* one behind it
LongEscInputs ==
    { Repeat(59, n) : n \in {15, 16, 17} }
    \cup { Repeat(59, n) \o <<68>> \o t : n \in {14, 15, 16}, t \in { <<>>, <<88>> } }

EscInputs == ByteStrings(EscBytes, MaxEscLen) \cup LongEscInputs

\* call: p is the argument, what the reader held; seq and err are the results
InitReadEscape ==
    /\ reader \in EscInputs
    /\ readerEnd \in {"open", "eof", "err"}
    /\ defaultTo = <<>> /\ optional = FALSE /\ checks = <<>>
    /\ EditorIdle
    /\ AskIdle
    /\ leaked = NoWorker
    /\ term = <<>>
    /\ call = [fn |-> "none", p |-> reader, seq |-> <<>>, err |-> "nil"]

\* seq, err := readEscapeSequence(q.reader); it blocks while the reader
\* holds no whole sequence and has not ended
ReadEscapeCall ==
    /\ call.fn = "none"
    /\ EscWhole(reader) \/ readerEnd /= "open"
    /\ LET e == readEscapeSequence(reader, readerEnd)
       IN  /\ call' = [fn |-> "readEscapeSequence", p |-> reader, seq |-> e.seq, err |-> e.err]
           /\ reader' = Slice(reader, e.n, Len(reader))
    /\ UNCHANGED <<readerEnd, cfgVars, edVars, askVars, leaked, term>>

NextReadEscape == ReadEscapeCall

SpecReadEscape == InitReadEscape /\ [][NextReadEscape]_vars

(***************************************************************************)
(* SpecScreen: the editor's redraws on a terminal of constant width.       *)
(*                                                                         *)
(* term is [w, cells, row, col, pend]: the width, the cells of the rows    *)
(* from the row the input starts in (row r, column c is cells[r*w+c+1],    *)
(* a blank is a space), the terminal's cursor, and pend: the cursor stands *)
(* on the last column behind a character printed there, and the next       *)
(* character printed goes to the next row.  The rows below exist.          *)
(***************************************************************************)
MaxScreenLine == 5   \* the buffer is not grown beyond this length

ScreenWidths  == {2, 3}
ScreenOffsets == {0, 1, 2, 5}     \* the code points of the prompt text
ScreenRunes   == {97, 32}         \* "a", " "
ScreenRows    == MaxScreenLine + 3
Blank         == 32
PromptCell    == 62               \* ">", shown where the prompt ends

\* the terminal prints the character c
TermPut(t, c) ==
    LET t1 == IF t.pend
              THEN [t EXCEPT !.row = IF @ + 1 < ScreenRows THEN @ + 1 ELSE @,
                             !.col = 0, !.pend = FALSE]
              ELSE t
        t2 == [t1 EXCEPT !.cells[t1.row * t1.w + t1.col + 1] = c]
    IN  IF t1.col = t1.w - 1 THEN [t2 EXCEPT !.pend = TRUE]
        ELSE [t2 EXCEPT !.col = @ + 1]

\* the terminal takes one item of the editor's output
TermItem(t, item) ==
    CASE item[1] = "ch" /\ item[2] = 13 -> [t EXCEPT !.col = 0, !.pend = FALSE]
      [] item[1] = "ch" /\ item[2] /= 13 -> TermPut(t, item[2])
      [] item[1] = "CUU" ->
            [t EXCEPT !.row = IF @ > item[2] THEN @ - item[2] ELSE 0, !.pend = FALSE]
      [] item[1] = "CUD" ->
            [t EXCEPT !.row = IF @ + item[2] < ScreenRows THEN @ + item[2]
                              ELSE ScreenRows - 1,
                      !.pend = FALSE]
      [] item[1] = "CUF" ->
            [t EXCEPT !.col = IF @ + item[2] < t.w THEN @ + item[2] ELSE t.w - 1,
                      !.pend = FALSE]
      [] item[1] = "CUB" ->
            [t EXCEPT !.col = IF @ > item[2] THEN @ - item[2] ELSE 0, !.pend = FALSE]
      [] item[1] = "EL" ->
            [t EXCEPT !.cells = [i \in DOMAIN t.cells |->
                                    IF i >= t.row * t.w + t.col + 1 /\ i <= (t.row + 1) * t.w
                                    THEN Blank ELSE t.cells[i]]]

RECURSIVE TermWrite(_, _)
TermWrite(t, out) == IF out = <<>> THEN t ELSE TermWrite(TermItem(t, Head(out)), Tail(out))

\* the terminal when readTerminalLine starts: the prompt text of inputOffset
\* code points has been printed, the cursor is where the input begins
TermStart(w, offset) ==
    [w |-> w,
     cells |-> [i \in 1..(ScreenRows * w) |-> IF i <= offset % w THEN PromptCell ELSE Blank],
     row |-> 0, col |-> offset % w, pend |-> FALSE]

InitScreen ==
    /\ reader = <<>> /\ readerEnd = "open"
    /\ defaultTo = <<>> /\ optional = FALSE /\ checks = <<>>
    /\ edPc = "reading" /\ termRaw = TRUE /\ restoreCount = 0
    /\ line = <<>> /\ cursor = 0
    /\ edRet = [val |-> <<>>, err |-> "nil", via |-> "none"]
    /\ inputOffset \in ScreenOffsets
    /\ lastWrite = <<>>
    /\ fed = [kind |-> "plain", runes |-> <<>>, after |-> <<>>]
    /\ AskIdle
    /\ leaked = NoWorker
    /\ \E w \in ScreenWidths : term = TermStart(w, inputOffset)
    /\ call = <<>>

\* a loop iteration that ends in the redraw, on the terminal: new is [line, cursor]
ScreenRedraw(new) ==
    LET out == redrawTerminalLine(new.line, Len(line), cursor, new.cursor, inputOffset, term.w)
    IN  /\ line' = new.line
        /\ cursor' = new.cursor
        /\ lastWrite' = out
        /\ term' = TermWrite(term, out)
        /\ UNCHANGED <<reader, readerEnd, cfgVars, askVars, edPc, termRaw, restoreCount,
                       edRet, inputOffset, fed, leaked, call>>

\* the default case with a code point that is no control
ScreenInsert ==
    /\ Len(line) < MaxScreenLine
    /\ \E r \in ScreenRunes : ScreenRedraw(insertRune(line, cursor, r))

\* the cases of the switch that move the cursor
ScreenMove ==
    \E new \in { [line |-> line, cursor |-> 0],
                 [line |-> line, cursor |-> IF cursor > 0 THEN cursor - 1 ELSE cursor],
                 [line |-> line, cursor |-> Len(line)],
                 [line |-> line, cursor |-> IF cursor < Len(line) THEN cursor + 1 ELSE cursor],
                 applyEscapeSequence(<<98>>, line, cursor),
                 applyEscapeSequence(<<102>>, line, cursor) } : ScreenRedraw(new)

\* the cases of the switch that remove characters
ScreenDelete ==
    \E new \in { [line |-> Slice(line, 0, cursor), cursor |-> cursor],
                 backwardKillLine(line, cursor),
                 backwardKillWord(line, cursor),
                 [line |-> deleteForward(line, cursor), cursor |-> cursor],
                 backspace(line, cursor) } : ScreenRedraw(new)

NextScreen == ScreenInsert \/ ScreenMove \/ ScreenDelete

SpecScreen == InitScreen /\ [][NextScreen]_vars

(***************************************************************************)
(* SpecStream: the loop of readTerminalLine on keys that wait in the       *)
(* reader.                                                                 *)
(*                                                                         *)
(* The session is in the loop with some buffer and cursor; the keys are    *)
(* in the reader, and the input is open or has ended behind them.  call    *)
(* keeps the buffer, the cursor and the keys the run began with.           *)
(***************************************************************************)
MaxStreamLine == 5   \* the length of the buffer the run begins with
MaxKills      == 4   \* the Ctrl+W in a row

StreamRunes == {97, 32}           \* "a", " "
StreamLines == ByteStrings(StreamRunes, MaxStreamLine)

KillKeys   == { Repeat(23, k) : k \in 1..MaxKills }
\* Ctrl+U, Ctrl+K, Ctrl+D, ESC [3~, ESC b, ESC f
EditKeys   == { <<21>>, <<11>>, <<21, 11>>, <<11, 21>>, <<4>>, <<4, 4>>, <<27, 91, 51, 126>>,
                <<27, 98>>, <<27, 102>>, <<27, 98, 27, 102>> }
\* sequences applyEscapeSequence has no case for: none, [Z, [1;9D, x, 16 bytes
\* without a terminator
OtherSeqs  == { <<>>, <<91, 90>>, <<91, 49, 59, 57, 68>>, <<120>>, Repeat(49, EscCap) }
OtherKeys  == { <<27>> \o s : s \in OtherSeqs }
StreamKeys == KillKeys \cup EditKeys \cup OtherKeys

InitStream ==
    /\ reader \in StreamKeys
    /\ readerEnd \in {"open", "eof"}
    /\ defaultTo = <<>> /\ optional = FALSE /\ checks = <<>>
    /\ edPc = "reading" /\ termRaw = TRUE /\ restoreCount = 0
    /\ line \in StreamLines
    /\ cursor \in 0..Len(line)
    /\ edRet = [val |-> <<>>, err |-> "nil", via |-> "none"]
    /\ inputOffset \in InputOffsets
    /\ lastWrite = <<>>
    /\ fed = [kind |-> "other", runes |-> <<>>, after |-> <<>>]
    /\ AskIdle
    /\ leaked = NoWorker
    /\ term = <<>>
    /\ call = [line |-> line, cursor |-> cursor, keys |-> reader]

NextStream == CtrlU \/ CtrlK \/ CtrlW \/ CtrlD \/ Escape \/ ReadByteEOF

SpecStream == InitStream /\ [][NextStream]_vars

(***************************************************************************)
(* SpecPosition: visualPosition and renderedPosition on their arguments.   *)
(*                                                                         *)
(* call holds the arguments and, once fn names the function that was       *)
(* called, its two results.                                                *)
(***************************************************************************)
MaxIndex == 8   \* the largest index

PosWidths == {1, 2, 3, 4}

InitPosition ==
    /\ reader = <<>> /\ readerEnd = "open"
    /\ defaultTo = <<>> /\ optional = FALSE /\ checks = <<>>
    /\ EditorIdle
    /\ AskIdle
    /\ leaked = NoWorker
    /\ term = <<>>
    /\ \E w \in PosWidths, c \in 0..3, i \in 0..MaxIndex :
          /\ c < w
          /\ call = [fn |-> "none", inputCol |-> c, index |-> i, width |-> w,
                     row |-> 0, col |-> 0]

\* row, col := visualPosition(inputCol, index, width)
VisualPositionCall ==
    /\ call.fn = "none"
    /\ LET p == visualPosition(call.inputCol, call.index, call.width)
       IN  call' = [call EXCEPT !.fn = "visualPosition", !.row = p.row, !.col = p.col]
    /\ UNCHANGED <<reader, readerEnd, cfgVars, edVars, askVars, leaked, term>>

\* row, col := renderedPosition(inputCol, index, width)
RenderedPositionCall ==
    /\ call.fn = "none"
    /\ LET p == renderedPosition(call.inputCol, call.index, call.width)
       IN  call' = [call EXCEPT !.fn = "renderedPosition", !.row = p.row, !.col = p.col]
    /\ UNCHANGED <<reader, readerEnd, cfgVars, edVars, askVars, leaked, term>>

NextPosition == VisualPositionCall \/ RenderedPositionCall

SpecPosition == InitPosition /\ [][NextPosition]_vars

(***************************************************************************)
(* SpecExhaust: the retry loop of Ask, Password and Confirm on an input    *)
(* that ends.                                                              *)
(*                                                                         *)
(* The reader is not a terminal, holds the bytes of the input and has      *)
(* end-of-input behind them; the context is never cancelled.  writer       *)
(* holds what the last write wrote, and there is no history: a call that   *)
(* comes back to the label retry with the reader, the configuration and    *)
(* the output it had there before is in a loop.  The caller and the        *)
(* goroutine are scheduled as long as they can take a step.                *)
(***************************************************************************)
InitExhaust ==
    /\ reader \in { s \o p : s \in Streams(MaxLines), p \in Partials }
    /\ readerEnd = "eof"
    /\ defaultTo \in Defaults
    /\ optional \in BOOLEAN
    /\ checks \in CheckLists
    /\ op \in {"Ask", "Password", "Confirm"}
    /\ askPc = "call"
    /\ askRet = [val |-> <<>>, err |-> "nil", yes |-> FALSE]
    /\ answer = <<>>
    /\ cancelled = FALSE
    /\ worker = NoWorker
    /\ chanClosed = FALSE
    /\ writer = <<>>
    /\ hist = <<>>
    /\ EditorIdle
    /\ FnIdle

\* Ask, Password or Confirm is called; Confirm appends its check
RetryCall ==
    /\ askPc = "call"
    /\ askPc' = "prompt"
    /\ checks' = IF op = "Confirm" THEN Append(checks, "yesno") ELSE checks
    /\ UNCHANGED <<reader, readerEnd, defaultTo, optional, edVars, fnVars, op, askRet, answer,
                   cancelled, worker, chanClosed, writer, hist>>

\* the label retry: the prompt is written; readInput / readPassword finds the
\* context alive, makes the channels and starts the goroutine
RetryPrompt ==
    /\ askPc = "prompt"
    /\ writer' = <<PromptText>>
    /\ askPc' = "select"
    /\ worker' = [NoWorker EXCEPT !.pc = "read"]
    /\ chanClosed' = FALSE
    /\ UNCHANGED <<reader, readerEnd, cfgVars, edVars, fnVars, op, askRet, answer, cancelled,
                   hist>>

\* the goroutine: scanLine, from ReadString to the send it then blocks in
RetryScanLine ==
    /\ worker.pc = "read"
    /\ LET i     == IndexNewline(reader, 1)
           input == IF i > 0 THEN SubSeq(reader, 1, i) ELSE reader
           send(pc, v, e) == [pc |-> pc, val |-> v, err |-> e, raw |-> input, nl |-> i > 0]
       IN  /\ reader' = IF i > 0 THEN Slice(reader, i, Len(reader)) ELSE <<>>
           /\ worker' = IF i = 0 /\ defaultTo /= <<>>
                             THEN send("sendInput", defaultTo, "nil")
                        ELSE IF i = 0 /\ ~optional
                             THEN send("sendErr", <<>>, "ErrRequired")
                        ELSE send("sendInput", TrimRight(input), "nil")
    /\ UNCHANGED <<readerEnd, cfgVars, edVars, fnVars, op, askPc, askRet, answer, cancelled,
                   chanClosed, writer, hist>>

\* select, case err := <-errorCh: the call returns the error
RetrySelectError ==
    /\ askPc = "select" /\ worker.pc = "sendErr"
    /\ worker' = [worker EXCEPT !.pc = "done"]
    /\ chanClosed' = TRUE
    /\ AskReturn(<<>>, worker.err)
    /\ UNCHANGED <<reader, readerEnd, cfgVars, edVars, fnVars, op, answer, cancelled, writer,
                   hist>>

\* select, case input := <-inputCh, and Ask / Password behind the read:
\* Password's newline, the empty input, the loop over q.checks
RetrySelectInput ==
    /\ askPc = "select" /\ worker.pc = "sendInput"
    /\ worker' = [worker EXCEPT !.pc = "done"]
    /\ chanClosed' = TRUE
    /\ answer' = worker.val
    /\ LET input   == worker.val
           i       == FirstRejecting(checks, input)
           newline == IF op = "Password" THEN <<NewlineOut>> ELSE writer
       IN  IF input = <<>> /\ defaultTo /= <<>>
           THEN AskReturn(defaultTo, "nil") /\ writer' = newline
           ELSE IF input = <<>> /\ ~optional
           THEN askPc' = "prompt" /\ UNCHANGED askRet /\ writer' = newline
           ELSE IF i > 0
           THEN askPc' = "prompt" /\ UNCHANGED askRet /\ writer' = <<ErrorLine(checks[i])>>
           ELSE AskReturn(input, "nil") /\ writer' = newline
    /\ UNCHANGED <<reader, readerEnd, cfgVars, edVars, fnVars, op, cancelled, hist>>

NextExhaust ==
    \/ RetryCall \/ RetryPrompt \/ RetryScanLine \/ RetrySelectError \/ RetrySelectInput

SpecExhaust == InitExhaust /\ [][NextExhaust]_vars /\ WF_vars(NextExhaust)

(***************************************************************************)
(* Claims about the editor, checked under SpecEditor.                      *)
(***************************************************************************)
\* the editor takes a step that consumes bytes of the reader, b among them
EditorConsumes(b) ==
    /\ edPc = "reading"
    /\ Len(reader') < Len(reader)
    /\ \E i \in 1..(Len(reader) - Len(reader')) : reader[i] = b

\* C1: a run that entered raw mode restores the terminal exactly once, by
\* whichever return it ends, and not before it ends; a run whose MakeRaw
\* failed returns that failure, restores nothing and has read no byte.
C1_RestoredOnEveryExit ==
    /\ [](/\ edPc = "reading" => termRaw /\ restoreCount = 0
          /\ (edPc = "returned" /\ edRet.via /= "MakeRaw") => ~termRaw /\ restoreCount = 1
          /\ (edPc = "returned" /\ edRet.via = "MakeRaw")
                => ~termRaw /\ restoreCount = 0 /\ edRet.err = "raw" /\ edRet.val = <<>>)
    /\ [][edPc = "start" => Len(reader') >= Len(reader)]_vars

C1_Witness ==
    edPc = "returned" /\ edRet.via = "readEscapeSequence" /\ edRet.err = "io" /\ line /= <<>>

\* C2: the cursor is within the buffer, 0 <= cursor <= len(line), in every
\* state the editor reaches.
C2_CursorInBounds == 0 <= cursor /\ cursor <= Len(line)

C2_Witness ==
    edPc = "reading" /\ Len(line) >= 2 /\ cursor = 1 /\ lastWrite /= <<>> /\ fed.kind = "other"

\* C3: while only non-control code points were typed, the buffer holds them
\* in order with the cursor behind them; a CR or LF then returns exactly
\* them with no error, writes "\r\n" and leaves what follows it unread.
C3_PlainRoundTrip ==
    /\ (fed.kind = "plain" /\ edPc = "reading" /\ reader = <<>>)
          => line = fed.runes /\ cursor = Len(line)
    /\ (fed.kind = "enter" /\ edPc = "returned" /\ edRet.via /= "MakeRaw")
          => /\ edRet = [val |-> fed.runes, err |-> "nil", via |-> "Enter"]
             /\ lastWrite = NewlineText
             /\ reader = fed.after

C3_Witness ==
    /\ edPc = "returned" /\ fed.kind = "enter" /\ edRet.via = "Enter"
    /\ edRet.val = <<233, 32>> /\ fed.after /= <<>>

\* C4: whenever the editor consumes the byte 0x03, it returns ErrInterrupted
\* with the empty string and has written "^C\r\n".
C4_CtrlCAnyPoint ==
    [][EditorConsumes(3)
         => /\ edPc' = "returned"
            /\ edRet'.err = "ErrInterrupted" /\ edRet'.val = <<>>
            /\ lastWrite' = InterruptText]_vars

\* C5: at the end of input and at Ctrl+D on an empty buffer the result is the
\* buffer if it is not empty, else the default if one is configured, else
\* the empty string if the question is optional, else ErrRequired.
C5_EofResolution ==
    (edPc = "returned" /\ edRet.via \in {"ReadByteEOF", "ReadRuneEOF", "CtrlD"})
       => /\ line /= <<>> => edRet.val = line /\ edRet.err = "nil"
          /\ (line = <<>> /\ defaultTo /= <<>>) => edRet.val = defaultTo /\ edRet.err = "nil"
          /\ (line = <<>> /\ defaultTo = <<>> /\ optional)
                => edRet.val = <<>> /\ edRet.err = "nil"
          /\ (line = <<>> /\ defaultTo = <<>> /\ ~optional)
                => edRet.val = <<>> /\ edRet.err = "ErrRequired"
          /\ edRet.via = "CtrlD" => line = <<>>

C5_Witness ==
    /\ edPc = "returned" /\ edRet.via = "ReadByteEOF" /\ line /= <<>>
    /\ defaultTo /= <<>> /\ edRet.val = line

(***************************************************************************)
(* Claims about Ask, Password and Confirm, checked under SpecAsk.          *)
(***************************************************************************)
\* a line as it was typed: what ReadString gave, without its "\n" or "\r\n"
Typed(raw) ==
    LET a == IF raw /= <<>> /\ raw[Len(raw)] = 10 THEN SubSeq(raw, 1, Len(raw) - 1) ELSE raw
    IN  IF a /= <<>> /\ a[Len(a)] = 13 THEN SubSeq(a, 1, Len(a) - 1) ELSE a

\* the call has dealt with the answer it read last: it returned a value, or
\* it stands at the label retry again
Resolved ==
    /\ hist.reads > 0
    /\ \/ askPc = "prompt"
       \/ askPc = "returned" /\ askRet.err = "nil"

SomeCheckRejects(cs, s) == \E i \in 1..Len(cs) : CheckRejects(cs[i], s)

ErrorLines == SelectSeq(writer, LAMBDA t : t[1] = "errln")

\* C6: of a newline-terminated answer read by Ask, as the claim has it: a
\* non-empty answer is returned as typed; an empty one returns the default if
\* there is one, else the empty string if the question is optional, else the
\* call is at the label retry again.
C6_AnswerResolution ==
    (op = "Ask" /\ Resolved /\ hist.nl)
       => LET a == Typed(hist.raw)
          IN  /\ a /= <<>> => askPc = "returned" /\ askRet.val = a
              /\ (a = <<>> /\ defaultTo /= <<>>) => askPc = "returned" /\ askRet.val = defaultTo
              /\ (a = <<>> /\ defaultTo = <<>> /\ optional)
                    => askPc = "returned" /\ askRet.val = <<>>
              /\ (a = <<>> /\ defaultTo = <<>> /\ ~optional) => askPc = "prompt"

\* C6, amended: the same, but the non-empty answer and the empty answer of an
\* optional question are returned only if no configured check rejects them;
\* if one does, the call is at the label retry again.
C6_AnswerResolutionUnlessRejected ==
    (op = "Ask" /\ Resolved /\ hist.nl)
       => LET a == Typed(hist.raw)
              rejected == SomeCheckRejects(checks, a)
          IN  /\ (a /= <<>> /\ ~rejected) => askPc = "returned" /\ askRet.val = a
              /\ (a /= <<>> /\ rejected) => askPc = "prompt"
              /\ (a = <<>> /\ defaultTo /= <<>>) => askPc = "returned" /\ askRet.val = defaultTo
              /\ (a = <<>> /\ defaultTo = <<>> /\ optional /\ ~rejected)
                    => askPc = "returned" /\ askRet.val = <<>>
              /\ (a = <<>> /\ defaultTo = <<>> /\ optional /\ rejected) => askPc = "prompt"
              /\ (a = <<>> /\ defaultTo = <<>> /\ ~optional) => askPc = "prompt"

C6_Witness ==
    /\ op = "Ask" /\ askPc = "returned" /\ askRet.err = "nil" /\ hist.nl
    /\ defaultTo /= <<>> /\ askRet.val = No /\ Len(hist.answers) = 2

\* the answers the loop over q.checks rejected: those the call has dealt
\* with, that reached the loop and that some check rejects
RejectedAnswers ==
    LET n    == Len(hist.answers)
        done == IF askPc \in {"empty", "checks"} THEN SubSeq(hist.answers, 1, n - 1)
                ELSE hist.answers
    IN  SelectSeq(done, LAMBDA a : /\ ~(a = <<>> /\ (defaultTo /= <<>> \/ ~optional))
                                   /\ SomeCheckRejects(checks, a))

\* C7: from the loop over the checks, Ask and Password either write the error
\* of the first check, in configured order, that rejects the answer, and a
\* newline, and go to write the prompt and read again, or, if no check
\* rejects it, return the answer; the writer holds one prompt for each read
\* attempt and, in order, one error line for each rejected answer.
C7_CheckRejection ==
    /\ [][(askPc = "checks" /\ askPc' /= "checks")
            => LET R == {i \in 1..Len(checks) : CheckRejects(checks[i], answer)}
               IN  IF R /= {}
                   THEN /\ \E i \in R : /\ \A j \in R : i <= j
                                        /\ writer' = Append(writer, ErrorLine(checks[i]))
                        /\ askPc' = "prompt"
                   ELSE /\ askPc' = "returned"
                        /\ askRet'.val = answer /\ askRet'.err = "nil"
                        /\ writer' = writer]_vars
    /\ [][(askPc = "prompt" /\ askPc' /= "prompt")
            => writer' = Append(writer, PromptText) /\ askPc' = "readInput"]_vars
    /\ [][(askPc = "readInput" /\ askPc' /= "readInput" /\ ~cancelled)
            => worker'.pc = "read" /\ askPc' = "select" /\ writer' = writer]_vars
    /\ [](/\ Len(SelectSeq(writer, LAMBDA t : t = PromptText))
               = hist.reads + (IF askPc = "readInput" THEN 1 ELSE 0)
          /\ Len(ErrorLines) = Len(RejectedAnswers)
          /\ \A k \in 1..Len(ErrorLines) :
                \E i \in 1..Len(checks) :
                   /\ ErrorLines[k] = ErrorLine(checks[i])
                   /\ CheckRejects(checks[i], RejectedAnswers[k])
                   /\ \A j \in 1..(i - 1) : ~CheckRejects(checks[j], RejectedAnswers[k]))

C7_Witness ==
    /\ op = "Password" /\ askPc = "returned" /\ askRet.err = "nil"
    /\ checks = <<"notX", "min2">> /\ ErrorLines = <<ErrorLine("notX")>>
    /\ askRet.val = No

\* the checks the caller configured, without the one Confirm appended
UserChecks == IF askPc = "call" THEN checks ELSE SubSeq(checks, 1, Len(checks) - 1)

\* C8: Confirm with no default, as the claim has it: it returns only on an
\* answer that is y, yes, n or no in any case, true exactly on y and yes; on
\* every other answer, and on no such answer, it has written an error line
\* and stands at the label retry.
C8_ConfirmYesNo ==
    (op = "Confirm" /\ defaultTo = <<>> /\ Resolved)
       => /\ askPc = "returned"
                => /\ ToLower(answer) \in {Y, Yes, N, No}
                   /\ askRet.yes <=> ToLower(answer) \in {Y, Yes}
          /\ askPc = "prompt"
                => /\ ToLower(answer) \notin {Y, Yes, N, No}
                   /\ writer /= <<>> /\ writer[Len(writer)][1] = "errln"

\* C8, amended: as above, but an empty answer to a question that is not
\* optional gets the new prompt without an error line, and an answer of y,
\* yes, n or no is also rejected when a check of the caller rejects it.
C8_ConfirmYesNoAmended ==
    (op = "Confirm" /\ defaultTo = <<>> /\ Resolved)
       => /\ askPc = "returned"
                => /\ ToLower(answer) \in {Y, Yes, N, No}
                   /\ askRet.yes <=> ToLower(answer) \in {Y, Yes}
          /\ askPc = "prompt"
                => IF answer = <<>> /\ ~optional
                   THEN writer /= <<>> /\ writer[Len(writer)][1] /= "errln"
                   ELSE /\ writer /= <<>> /\ writer[Len(writer)][1] = "errln"
                        /\ \/ ToLower(answer) \notin {Y, Yes, N, No}
                           \/ SomeCheckRejects(UserChecks, answer)

C8_Witness ==
    /\ op = "Confirm" /\ defaultTo = <<>> /\ askPc = "returned" /\ askRet.err = "nil"
    /\ answer = <<89, 101, 115>> /\ askRet.yes /\ Len(hist.answers) = 2
    /\ Len(ErrorLines) = 1

\* C9: a call made with the context already cancelled returns the
\* cancellation error with the empty string (false for Confirm), starts no
\* goroutine and leaves the reader as it was.
C9_AlreadyCancelled ==
    hist.cancelled0
       => /\ worker.pc = "none"
          /\ reader = hist.reader0
          /\ askPc \in {"prompt", "readInput", "returned"}
          /\ askPc = "returned"
                => askRet = [val |-> <<>>, err |-> "Canceled", yes |-> FALSE]

C9_Witness ==
    /\ hist.cancelled0 /\ askPc = "returned" /\ op = "Confirm"
    /\ IndexNewline(reader, 1) > 0 /\ askRet.err = "Canceled"

\* C10: the select of readInput / readPassword ends in one of three ways:
\* the goroutine's line, the goroutine's error, the cancellation error; with
\* the context cancelled before the select receives from the goroutine it is
\* the cancellation error, and with the context not cancelled it is what
\* the goroutine sent.
C10_SelectOutcome ==
    [][(askPc = "select" /\ askPc' /= "select")
         => LET line_  == /\ askPc' = "empty" /\ worker.pc = "sendInput"
                          /\ answer' = worker.val
                err_   == /\ askPc' = "returned" /\ worker.pc = "sendErr"
                          /\ askRet'.err = worker.err /\ askRet'.val = <<>>
                          /\ worker'.pc = "done"
                cancel == /\ askPc' = "returned" /\ askRet'.err = "Canceled"
                          /\ askRet'.val = <<>> /\ worker' = worker
            IN  /\ line_ \/ err_ \/ cancel
                /\ ~(line_ /\ err_) /\ ~(line_ /\ cancel) /\ ~(err_ /\ cancel)
                /\ cancelled => cancel
                /\ ~cancelled => line_ \/ err_]_vars

(***************************************************************************)
(* Claims about the reader shared between calls, checked under SpecReuse.  *)
(***************************************************************************)
\* C11: the reader is never in the hands of two goroutines at once, and
\* once a later call of Ask uses the reader, the goroutine a cancelled call
\* left behind takes no line from it.
C11_ReaderNotShared ==
    /\ [](~(worker.pc = "read" /\ leaked.pc = "read"))
    /\ [][(call.n > 1 /\ leaked' /= leaked) => ~leaked'.nl /\ reader' = reader]_vars

(***************************************************************************)
(* Claims about readEscapeSequence, checked under SpecReadEscape.          *)
(***************************************************************************)
\* a terminator as the claim lists them: '~', 0x7F, a C0 control byte, an
\* ASCII letter
ListedTerminator(b) ==
    b = 126 \/ b = 127 \/ b < 32 \/ (b >= 65 /\ b <= 90) \/ (b >= 97 /\ b <= 122)

\* C12: readEscapeSequence, when it returns no error, returns and consumes
\* the shortest prefix of the bytes that ends in a listed terminator, or the
\* first 16 bytes if none of them is one, or all the bytes if the input ends
\* first; what follows stays in the reader; the sequence has at most 16
\* bytes and no listed terminator before its last byte.
C12_EscapeSequenceRead ==
    (call.fn = "readEscapeSequence" /\ call.err = "nil")
       => LET p == call.p
              m == IF Len(p) < 16 THEN Len(p) ELSE 16
              T == {i \in 1..m : ListedTerminator(p[i])}
              n == IF T /= {} THEN CHOOSE i \in T : \A j \in T : i <= j ELSE m
          IN  /\ call.seq = SubSeq(p, 1, n)
              /\ reader = SubSeq(p, n + 1, Len(p))
              /\ Len(call.seq) <= 16
              /\ \A i \in 1..(Len(call.seq) - 1) : ~ListedTerminator(call.seq[i])
              /\ (T = {} /\ m < 16) => readerEnd = "eof"

(***************************************************************************)
(* More claims about the editor, checked under SpecEditor.                 *)
(***************************************************************************)
HasPrefix(s, p) == Len(s) >= Len(p) /\ SubSeq(s, 1, Len(p)) = p

\* C13: when the editor reads on with ESC and the bytes of a sequence of the
\* table at the head of the reader, it consumes just these bytes and buffer
\* and cursor become what the table says for the sequence; none of the
\* bytes is left to be inserted.
C13_TableSequences ==
    [][\A s \in SeqTable :
          (edPc = "reading" /\ HasPrefix(reader, <<27>> \o s) /\ Len(reader') < Len(reader))
             => /\ reader' = SubSeq(reader, 2 + Len(s), Len(reader))
                /\ edPc' = "reading"
                /\ line' = applyEscapeSequence(s, line, cursor).line
                /\ cursor' = applyEscapeSequence(s, line, cursor).cursor]_vars

(***************************************************************************)
(* Claims about the redraw, checked under SpecScreen.                      *)
(***************************************************************************)
\* C14: after every redraw the cells from the cell where the input begins
\* show the buffer and then blanks, and the terminal's cursor is on row and
\* column divmod(inputCol + cursor, W), with no wrap pending.
C14_ScreenShowsBuffer ==
    LET W        == term.w
        inputCol == inputOffset % W
    IN  /\ \A k \in 0..(ScreenRows * W - inputCol - 1) :
              term.cells[inputCol + k + 1] = IF k < Len(line) THEN line[k + 1] ELSE Blank
        /\ term.row = (inputCol + cursor) \div W
        /\ term.col = (inputCol + cursor) % W
        /\ ~term.pend

\* a line that ends on the last column, reached by a removal, the cursor
\* behind it on the next row
C14_Witness ==
    /\ Len(line) = 4 /\ cursor = 4 /\ line[4] = 97
    /\ term.w = 3 /\ inputOffset % 3 = 2
    /\ term.row = 2 /\ term.col = 0
    /\ \E i \in 1..Len(lastWrite) : lastWrite[i] = <<"CUD", 1>>
    /\ \E i \in 2..Len(lastWrite) : lastWrite[i] = <<"ch", 32>> /\ lastWrite[i - 1] = <<"ch", 97>>

(***************************************************************************)
(* Claims about the loop of readTerminalLine, checked under SpecEditor.    *)
(***************************************************************************)
\* the byte the loop reads next belongs to an edit: a case of the switch that
\* reaches the redraw, or the first byte of a code point that is no control
EditByte ==
    \/ reader[1] \in {1, 2, 5, 6, 11, 21, 23, 8, 127}
    \/ reader[1] = 4 /\ Len(line) > 0
    \/ reader[1] = 27
    \/ reader[1] \notin SwitchBytes /\ ~IsControl(DecodeRune(reader).r)

\* C15: a loop iteration that takes the bytes of an edit and goes on reading
\* writes exactly one redraw, made from the cursor and the length of before;
\* a control that is no case of the switch writes nothing and changes neither
\* buffer nor cursor; an iteration that returns (CR, LF, Ctrl+C, a failure,
\* the end of the input) writes no redraw; the bytes of the switch that edit
\* never end the session.
C15_OneRedrawPerEdit ==
    [][edPc = "reading" =>
          /\ edPc' = "returned" => lastWrite' \in {<<>>, NewlineText, InterruptText}
          /\ (edPc' = "reading" /\ Len(reader') < Len(reader)) =>
                IF EditByte
                THEN \E w \in TermWidths :
                        lastWrite' = redrawTerminalLine(line', Len(line), cursor, cursor',
                                                        inputOffset, w)
                ELSE lastWrite' = <<>> /\ line' = line /\ cursor' = cursor
          /\ (Len(reader') < Len(reader) /\ reader[1] \in {1, 2, 5, 6, 11, 21, 23, 8, 127})
                => edPc' = "reading"
          /\ (Len(reader') < Len(reader) /\ reader[1] \in {13, 10, 3})
                => edPc' = "returned"]_vars

\* Ctrl+A was read with the cursor behind two characters: the redraw goes up
\* from where the cursor was
C15_Witness ==
    /\ edPc = "reading" /\ Len(line) = 2 /\ cursor = 0
    /\ lastWrite = redrawTerminalLine(line, 2, 2, 0, inputOffset, 4)
    /\ lastWrite /= redrawTerminalLine(line, 2, 0, 0, inputOffset, 4)

(***************************************************************************)
(* Claims about the edits, checked under SpecStream.                       *)
(***************************************************************************)
\* the index left of c behind the whitespace that ends at c and the run of
\* non-whitespace that ends before it
WordLeftOf(l, c) ==
    CHOOSE i \in 0..c :
        \E m \in i..c :
            /\ \A k \in (m + 1)..c : IsSpace(l[k])
            /\ m = 0 \/ ~IsSpace(l[m])
            /\ \A k \in (i + 1)..m : ~IsSpace(l[k])
            /\ i = 0 \/ IsSpace(l[i])

\* the words of l: its runs of non-whitespace
Words(l) == Cardinality({ i \in 1..Len(l) : ~IsSpace(l[i]) /\ (i = 1 \/ IsSpace(l[i - 1])) })

OnlySpace(l) == \A i \in 1..Len(l) : IsSpace(l[i])

\* the Ctrl+W read since the run began
KillsDone == Len(call.keys) - Len(reader)

\* a Ctrl+W is read: it removes [wordLeft(c), c), keeps the rest in order and
\* puts the cursor on wordLeft(c); at the end of a buffer that is not empty it
\* shortens the buffer
KillWordStep ==
    (edPc = "reading" /\ reader /= <<>> /\ reader[1] = 23 /\ reader' = Tail(reader))
       => LET wl == WordLeftOf(line, cursor)
          IN  /\ line' = Slice(line, 0, wl) \o Slice(line, cursor, Len(line))
              /\ cursor' = wl
              /\ (cursor = Len(line) /\ line /= <<>>) => Len(line') < Len(line)

\* C16 as stated: KillWordStep, and from the end of a buffer as many Ctrl+W
\* as it has words, one more when it is only whitespace, empty it.
C16_KillWord ==
    /\ [][KillWordStep]_vars
    /\ []((/\ call.keys \in KillKeys
           /\ call.cursor = Len(call.line)
           /\ KillsDone >= Words(call.line) + (IF OnlySpace(call.line) THEN 1 ELSE 0))
          => line = <<>>)

\* C16: KillWordStep, and from the end of a buffer as many Ctrl+W as it has
\* words, one more when it begins with whitespace, empty it.
C16_KillWordLeadingSpace ==
    /\ [][KillWordStep]_vars
    /\ []((/\ call.keys \in KillKeys
           /\ call.cursor = Len(call.line)
           /\ KillsDone >= Words(call.line)
                           + (IF call.line /= <<>> /\ IsSpace(call.line[1]) THEN 1 ELSE 0))
          => line = <<>>)

\* " a a" is empty after three Ctrl+W and not before
C16_Witness ==
    /\ call.line = <<32, 97, 32, 97>> /\ call.cursor = 4
    /\ call.keys = Repeat(23, 3) /\ reader = <<>>
    /\ edPc = "reading" /\ line = <<>> /\ cursor = 0
    /\ Len(lastWrite) > 0

\* i is left of c behind the whitespace that ends at c and the run of
\* non-whitespace before it
IsWordLeft(l, c, i) ==
    /\ 0 <= i /\ i <= c
    /\ \E m \in i..c :
          /\ \A k \in (m + 1)..c : IsSpace(l[k])
          /\ m = 0 \/ ~IsSpace(l[m])
          /\ \A k \in (i + 1)..m : ~IsSpace(l[k])
    /\ i = 0 \/ IsSpace(l[i])
    /\ i < c => (~IsSpace(l[i + 1]) \/ \A k \in (i + 1)..c : IsSpace(l[k]))

\* i is right of c behind the whitespace that begins at c and the run of
\* non-whitespace behind it
IsWordRight(l, c, i) ==
    /\ c <= i /\ i <= Len(l)
    /\ \E m \in c..i :
          /\ \A k \in (c + 1)..m : IsSpace(l[k])
          /\ m = Len(l) \/ ~IsSpace(l[m + 1])
          /\ \A k \in (m + 1)..i : ~IsSpace(l[k])
    /\ i = Len(l) \/ IsSpace(l[i + 1])

\* C17: ESC b puts the cursor on the index word-left of it and ESC f on the
\* index word-right of it, both within the buffer, and neither changes the
\* buffer; after ESC b and then ESC f the cursor is within the buffer.
C17_WordMotion ==
    /\ [][(edPc = "reading" /\ HasPrefix(reader, <<27, 98>>) /\ reader' /= reader)
             => /\ reader' = SubSeq(reader, 3, Len(reader))
                /\ IsWordLeft(line, cursor, cursor')
                /\ line' = line]_vars
    /\ [][(edPc = "reading" /\ HasPrefix(reader, <<27, 102>>) /\ reader' /= reader)
             => /\ reader' = SubSeq(reader, 3, Len(reader))
                /\ IsWordRight(line, cursor, cursor')
                /\ line' = line]_vars
    /\ []((call.keys = <<27, 98, 27, 102>> /\ reader = <<>>)
             => /\ line = call.line
                /\ 0 <= cursor /\ cursor <= Len(line)
                /\ \E i \in 0..call.cursor : IsWordLeft(line, call.cursor, i)
                                             /\ IsWordRight(line, i, cursor))

\* on "a aa " from the end: word-left to 2, word-right to 4
C17_Witness ==
    /\ call.keys = <<27, 98, 27, 102>> /\ reader = <<>>
    /\ call.line = <<97, 32, 97, 97, 32>> /\ call.cursor = 5
    /\ line = call.line /\ cursor = 4
    /\ edPc = "reading"

\* Ctrl+D with a buffer that is not empty, or ESC [3~, is read next
ForwardDeleteNext ==
    /\ edPc = "reading"
    /\ \/ reader /= <<>> /\ reader[1] = 4 /\ Len(line) > 0
       \/ HasPrefix(reader, <<27, 91, 51, 126>>)

\* C18: ESC [3~, and Ctrl+D on a buffer that is not empty, remove the
\* character at the cursor and keep the others in order and the cursor in
\* place; at the end of the buffer they change nothing; the session goes on
\* reading.
C18_ForwardDelete ==
    [][(ForwardDeleteNext /\ reader' /= reader)
          => /\ reader' = SubSeq(reader, IF reader[1] = 4 THEN 2 ELSE 5, Len(reader))
             /\ edPc' = "reading"
             /\ cursor' = cursor
             /\ IF cursor < Len(line)
                THEN /\ Len(line') = Len(line) - 1
                     /\ \A i \in 1..cursor : line'[i] = line[i]
                     /\ \A i \in (cursor + 1)..Len(line') : line'[i] = line[i + 1]
                ELSE line' = line]_vars

\* Ctrl+D on "a a" with the cursor behind the first character: "aa"
C18_Witness ==
    /\ call.keys = <<4>> /\ reader = <<>>
    /\ call.line = <<97, 32, 97>> /\ call.cursor = 1
    /\ line = <<97, 97>> /\ cursor = 1
    /\ edPc = "reading"

\* C19: Ctrl+U leaves the characters from the cursor on, in order, and puts
\* the cursor on 0; Ctrl+K leaves the characters before the cursor, in order,
\* and the cursor where it was, the end of the buffer now; after both, in
\* either order, the buffer is empty.
C19_Kills ==
    /\ [][(edPc = "reading" /\ reader /= <<>> /\ reader[1] = 21 /\ reader' /= reader)
             => /\ reader' = Tail(reader)
                /\ Len(line') = Len(line) - cursor
                /\ \A i \in 1..Len(line') : line'[i] = line[cursor + i]
                /\ cursor' = 0
                /\ edPc' = "reading"]_vars
    /\ [][(edPc = "reading" /\ reader /= <<>> /\ reader[1] = 11 /\ reader' /= reader)
             => /\ reader' = Tail(reader)
                /\ Len(line') = cursor
                /\ \A i \in 1..cursor : line'[i] = line[i]
                /\ cursor' = cursor
                /\ edPc' = "reading"]_vars
    /\ []((call.keys \in { <<21, 11>>, <<11, 21>> } /\ reader = <<>>)
             => line = <<>> /\ cursor = 0)

\* Ctrl+U and then Ctrl+K in the middle of "a aa": nothing is left
C19_Witness ==
    /\ call.keys = <<21, 11>> /\ reader = <<>>
    /\ call.line = <<97, 32, 97, 97>> /\ call.cursor = 2
    /\ line = <<>> /\ cursor = 0
    /\ edPc = "reading"

\* C20: ESC and a sequence applyEscapeSequence has no case for (none at the
\* end of the input, 16 bytes without a terminator, others) is consumed
\* whole, changes neither buffer nor cursor, and the session goes on reading;
\* so does every sequence readEscapeSequence returns that is not of the table.
C20_OtherSequences ==
    /\ [][\A s \in OtherSeqs :
             (edPc = "reading" /\ reader = <<27>> \o s /\ reader' /= reader)
                => /\ reader' = <<>>
                   /\ line' = line /\ cursor' = cursor
                   /\ edPc' = "reading"]_vars
    /\ [][(/\ edPc = "reading" /\ reader /= <<>> /\ reader[1] = 27 /\ reader' /= reader
           /\ readEscapeSequence(Tail(reader), readerEnd).err = "nil"
           /\ readEscapeSequence(Tail(reader), readerEnd).seq \notin SeqTable)
             => line' = line /\ cursor' = cursor /\ edPc' = "reading"]_vars

\* ESC and sixteen "1" were read in the middle of "a a": nothing moved
C20_Witness ==
    /\ call.keys = <<27>> \o Repeat(49, 16) /\ reader = <<>>
    /\ call.line = <<97, 32, 97>> /\ call.cursor = 2
    /\ line = call.line /\ cursor = 2
    /\ edPc = "reading" /\ Len(lastWrite) > 0


(***************************************************************************)
(* Claims about the positions, checked under SpecPosition.                 *)
(***************************************************************************)
\* C21: visualPosition returns the row and the column with
\* row * W + col = inputCol + index and 0 <= col < W; renderedPosition returns
\* the same but for index > 0 with (inputCol + index) mod W = 0, where it
\* returns the last column of the row before; its row is never negative and
\* its column is within 0..W-1.
C21_Positions ==
    LET W        == call.width
        absolute == call.inputCol + call.index
    IN  /\ call.fn = "visualPosition"
              => /\ call.row * W + call.col = absolute
                 /\ 0 <= call.col /\ call.col < W
        /\ call.fn = "renderedPosition"
              => /\ IF call.index > 0 /\ absolute % W = 0
                    THEN (call.row + 1) * W = absolute /\ call.col = W - 1
                    ELSE call.row * W + call.col = absolute
                 /\ call.row >= 0
                 /\ 0 <= call.col /\ call.col <= W - 1

\* renderedPosition(1, 5, 3): the end of the second row, (1, 2)
C21_Witness ==
    /\ call.fn = "renderedPosition"
    /\ call.inputCol = 1 /\ call.index = 5 /\ call.width = 3
    /\ call.row = 1 /\ call.col = 2


(***************************************************************************)
(* Claims about the retry loop, checked under SpecExhaust.                 *)
(***************************************************************************)
\* C22: on an input that ends, whatever default, optional and checks are,
\* the call of Ask, Password or Confirm returns.
C22_ReturnsWhenInputEnds == <>(askPc = "returned")


(***************************************************************************)
(* Claims about what Ask and Password return, checked under SpecAsk.       *)
(***************************************************************************)
\* C23: a value that Ask or Password returns without an error is rejected by
\* none of the configured checks, the default returned for an empty answer
\* or at the end of the input included.
C23_ReturnedValueChecked ==
    (op \in {"Ask", "Password"} /\ askPc = "returned" /\ askRet.err = "nil")
       => \A i \in 1..Len(checks) : ~CheckRejects(checks[i], askRet.val)

\* C24: when the input ends without a newline, what scanLine sends for the
\* bytes it read is what eofValue resolves for the same bytes as the buffer,
\* under the same default and optional: bytes that are not empty are the
\* input, neither the default nor ErrRequired.
C24_ScanLineAsEofValue ==
    (worker.pc \in {"sendInput", "sendErr"} /\ ~worker.nl /\ readerEnd = "eof")
       => /\ [val |-> worker.val, err |-> worker.err] = eofValue(worker.raw)
          /\ worker.raw /= <<>> => (worker.pc = "sendInput" /\ worker.val = worker.raw)

\* the steps a goroutine takes: started, ReadString returned and it is in its
\* one send, the send was received and it ended
WorkerSteps ==
    { <<"none", "read">>, <<"done", "read">>, <<"read", "sendInput">>, <<"read", "sendErr">>,
      <<"sendInput", "done">>, <<"sendErr", "done">> }

\* C25: a goroutine sends once, on one channel, and ends when the caller's
\* select received it; the channels are closed only then, so nothing is sent
\* on a closed channel and nothing is closed twice; while the context is not
\* cancelled the caller in its select waits for a goroutine that is in its
\* send or can still reach it; the return on ctx.Done() closes nothing and
\* leaves the goroutine where it is, and a send is never received outside a
\* select.
C25_OneSendThenClose ==
    /\ [][worker'.pc /= worker.pc => <<worker.pc, worker'.pc>> \in WorkerSteps]_vars
    /\ [][(worker.pc \in {"sendInput", "sendErr"} /\ worker'.pc = "done")
             => askPc = "select" /\ askPc' /= "select" /\ ~chanClosed /\ chanClosed'
                /\ (worker.pc = "sendErr" <=> (askPc' = "returned" /\ askRet'.err = worker.err))
                /\ (worker.pc = "sendInput" => answer' = worker.val)]_vars
    /\ [](chanClosed => worker.pc = "done")
    /\ []((askPc = "select" /\ ~cancelled)
             => \/ worker.pc \in {"sendInput", "sendErr"}
                \/ worker.pc = "read" /\ (ENABLED scanLine
                                          \/ (readerEnd = "open" /\ IndexNewline(reader, 1) = 0)))
    /\ [][(askPc = "select" /\ askPc' = "returned" /\ askRet'.err = "Canceled")
             => cancelled /\ ~chanClosed' /\ worker' = worker /\ worker.pc /= "done"]_vars
    /\ [][askPc = "returned" => (worker'.pc /= "done" \/ worker.pc = "done")]_vars

\* the call returned on ctx.Done(); the goroutine it left is in its send, the
\* channels are open
C25_Witness ==
    /\ askPc = "returned" /\ askRet.err = "Canceled"
    /\ worker.pc = "sendInput" /\ worker.val = <<120>>
    /\ ~chanClosed
    /\ hist.cancelAt = "read"

=============================================================================
